---- MODULE Spec2Model ----
(***************************************************************************)
(* Chat session state of frontend/src/pages/ChatPage.tsx: the room list,   *)
(* the active room, the message list of the active room, the compose field *)
(* and the asynchronous calls (room list, message history, send, profile)  *)
(* whose completions mutate them.  Every React event handler and every     *)
(* promise continuation is one atomic action (single-threaded event loop). *)
(* Timestamps and the isModerated flag of a message are not modelled: no   *)
(* handler reads them.  The create and join dialogs                        *)
(* (components/chat/CreateRoomDialog.tsx, JoinRoomDialog.tsx) are modelled *)
(* with their name / code field; the optional custom code of a new room is *)
(* only passed through to the room service and is left out.                *)
(***************************************************************************)
EXTENDS Integers, Sequences, FiniteSets, Bags, TLC

\* ---------------------------------------------------------------- bounds
MaxRooms == 3          \* longest room list explored
MaxLoads == 2          \* message-history fetches in flight at once
MaxSends == 2          \* submits accepted in one run
MaxRoomLoads == 2      \* room-list fetches in flight at once

\* ------------------------------------------------------------- constants
RoomIds == {"global", "r1"}
Uid == "u1"
OtherUid == "u2"
TempPrefix == "temp_"
NoToast == ""

\* compose-field texts, as character sequences
Texts == { <<>>, <<" ">>, <<"h", "i">>, <<" ", "h", "i", " ">> }

\* String.prototype.trim
RECURSIVE TrimLeft(_)
TrimLeft(s) == IF s # <<>> /\ Head(s) = " " THEN TrimLeft(Tail(s)) ELSE s

RECURSIVE TrimRight(_)
TrimRight(s) ==
    IF s # <<>> /\ s[Len(s)] = " " THEN TrimRight(SubSeq(s, 1, Len(s) - 1)) ELSE s

\* a trim that leaves trailing blanks
TrimStart(s) == TrimLeft(s)

Trim(s) == TrimRight(TrimLeft(s))

\* ----------------------------------------------------------------- rooms
SynthGlobalRoom ==
    [id |-> "global", name |-> "Global Chat", code |-> "GLOBAL", type |-> "global",
     members |-> {}, createdBy |-> "system", maxMembers |-> 1000]

\* rooms as the room service reports them
ServerGlobalRoom ==
    [id |-> "global", name |-> "Global", code |-> "GLOBAL", type |-> "global",
     members |-> {}, createdBy |-> "system", maxMembers |-> 1000]

PrivateRoom(r, n) ==
    [id |-> r, name |-> n, code |-> "CODE", type |-> "private",
     members |-> {Uid}, createdBy |-> Uid, maxMembers |-> 5]

ServerRooms == {ServerGlobalRoom, PrivateRoom("r1", "one")}

\* rooms carried by created / joined / updated notifications
EventRooms == ServerRooms \cup {PrivateRoom("r1", "renamed")}

\* room-list responses: no id twice, at most two rooms
RoomLists ==
    {<<>>} \cup {<<a>> : a \in ServerRooms}
           \cup {<<a, b>> : <<a, b>> \in {p \in ServerRooms \X ServerRooms : p[1].id # p[2].id}}

\* -------------------------------------------------------------- messages
\* message.id.startsWith('temp_'); an id is <<prefix, number>>
IsPendingId(id) == id[1] = TempPrefix

HistoryNo(r) == IF r = "global" THEN 100 ELSE 101

\* what the message service holds for room r before the session starts
HistoryMessage(r) ==
    [id |-> <<"msg", HistoryNo(r)>>, userId |-> OtherUid, username |-> "Student9",
     content |-> <<"y", "o">>, roomId |-> r]

NoMessage ==
    [id |-> <<"", 0>>, userId |-> "", username |-> "", content |-> <<>>, roomId |-> ""]

\* ------------------------------------------------------------------ users
NoUser == [uid |-> "", displayName |-> ""]
TheUser == [uid |-> Uid, displayName |-> "Alice"]
Users == {TheUser, [uid |-> Uid, displayName |-> ""]}
ProfileNames == {"", "Ali"}
FreshUsernames == {"Student1", "Student2"}

\* a dialog: closed, its field empty, no call in flight.  `request` is the
\* argument of the createChatRoom / joinChatRoom call in flight
ClosedDialog ==
    [open |-> FALSE, text |-> <<>>, isLoading |-> FALSE, inFlight |-> FALSE,
     request |-> <<>>]

\* what the user types into the name and code fields
DialogTexts == { <<>>, <<" ">>, <<"a">> }

\* String.prototype.toUpperCase
ToUpperCase(s) == [i \in 1..Len(s) |-> IF s[i] = "a" THEN "A" ELSE s[i]]

\* the room the room service answers a create or join call with
CreatedRooms == {r \in ServerRooms : r.type = "private"}

NoSend ==
    [status |-> "idle", tempId |-> <<"", 0>>, roomId |-> "", raw |-> <<>>,
     content |-> <<>>,
     username |-> "", message |-> NoMessage]

VARIABLES
    currentUser,      \* useAuth().currentUser
    rooms,            \* ChatRoom[]
    activeRoomId,
    messages,         \* ChatMessage[]
    newMessage,       \* compose field
    isLoading,
    isSending,
    currentUsername,  \* cached anonymous username
    chatDisplayName,
    storedUsername,   \* sessionStorage['chatUsername'], "" when absent
    msgLoads,         \* getRoomMessages calls in flight
    roomLoads,        \* number of getChatRooms calls in flight
    profileLoads,     \* getChatProfile calls in flight: the displayName each captured
    send,             \* sendRoomMessage call in flight, or NoSend
    sendCount,        \* submits accepted so far
    serverLog,        \* message service: room id -> stored messages
    event,            \* history: the handler that ran last, and the toast it raised
    stayed,           \* history: no room switch since the submit of the send in flight
    own,              \* isOwnMessage of each message row, as the last render computed it
    createDialog,     \* showCreateDialog and the state of CreateRoomDialog
    joinDialog        \* showJoinDialog and the state of JoinRoomDialog

vars == <<currentUser, rooms, activeRoomId, messages, newMessage, isLoading, isSending,
          currentUsername, chatDisplayName, storedUsername, msgLoads, roomLoads,
          profileLoads, send, sendCount, serverLog, event, stayed, own,
          createDialog, joinDialog>>

\* `stayed` is filled in by the two continuations of sendMessage: whether the
\* active room was left between the submit and its response
Ev(op, room, id, toast) ==
    [op |-> op, room |-> room, id |-> id, toast |-> toast, stayed |-> TRUE]
NoId == <<"", 0>>

\* The state after mount.  The user may or may not be known yet; when known,
\* the mount effect on [currentUser] has called loadChatRooms and
\* loadChatProfile.  sessionStorage may hold a name from an earlier page load.
Init ==
    /\ currentUser \in {NoUser} \cup Users
    /\ rooms = <<>>
    /\ activeRoomId = "global"
    /\ messages = <<>>
    /\ newMessage = <<>>
    /\ isSending = FALSE
    /\ currentUsername = ""
    /\ chatDisplayName = ""
    /\ storedUsername \in {"", "Student1"}
    /\ roomLoads = IF currentUser = NoUser THEN 0 ELSE 1
    /\ profileLoads = IF currentUser = NoUser THEN <<>> ELSE <<currentUser.displayName>>
    /\ send = NoSend
    /\ sendCount = 0
    /\ serverLog = [r \in RoomIds |-> <<HistoryMessage(r)>>]
    \* the mount effect on [activeRoomId] has called loadRoomMessages('global')
    /\ isLoading = TRUE
    /\ msgLoads = SetToBag({[room |-> "global", minLen |-> 1]})
    /\ event = Ev("mount", "", NoId, NoToast)
    /\ stayed = TRUE
    \* "Loading messages..." is shown: no message row is rendered
    /\ own = <<>>
    /\ createDialog = ClosedDialog
    /\ joinDialog = ClosedDialog

\* ------------------------------------------------------ identity resolver
\* a resolver that never reads sessionStorage
SessionUsernameUnstored(cached, stored, fresh) ==
    IF cached # "" THEN cached ELSE fresh

\* getSessionUsername: the value returned, given the cached name the closure
\* sees, the stored name and the number Math.random would produce
SessionUsername(cached, stored, fresh) ==
    IF cached # "" THEN cached ELSE IF stored # "" THEN stored ELSE fresh

\* sessionStorage['chatUsername'] after that call
StoredAfter(cached, stored, fresh) ==
    IF cached = "" /\ stored = "" THEN fresh ELSE stored

\* an attribution by user id in every room
IsOwnMessageByUserId(user, active, m, sessionName) ==
    /\ user # NoUser
    /\ m.userId = user.uid

\* isOwnMessage of the render loop
IsOwnMessage(user, active, m, sessionName) ==
    /\ user # NoUser
    /\ IF active = "global" THEN m.username = sessionName ELSE m.userId = user.uid

\* The render that follows every state change: the message loop calls
\* getSessionUsername once per message when the global room is shown.
\* cached / stored are the values the handler itself left behind.
Render(cached, stored) ==
    /\ IF /\ currentUser' # NoUser
          /\ activeRoomId' = "global"
          /\ ~isLoading'
          /\ messages' # <<>>
       THEN \E fresh \in FreshUsernames :
               /\ currentUsername' = SessionUsername(cached, stored, fresh)
               /\ storedUsername' = StoredAfter(cached, stored, fresh)
       ELSE /\ currentUsername' = cached
            /\ storedUsername' = stored
    \* one row per message unless the loading placeholder is shown; in the
    \* global room currentUsername' is what getSessionUsername returned
    /\ own' = IF isLoading'
              THEN <<>>
              ELSE [i \in 1..Len(messages') |->
                       IsOwnMessage(currentUser', activeRoomId', messages'[i],
                                    currentUsername')]

RenderOnly == Render(currentUsername, storedUsername)

\* ---------------------------------------------------- effect [activeRoomId]
\* setActiveRoomId(r) followed by the effect that calls loadRoomMessages(r)
\* when the id changed; the call runs up to its await (setIsLoading(true))
Activate(r) ==
    /\ activeRoomId' = r
    /\ IF r # activeRoomId
       THEN /\ BagCardinality(msgLoads) < MaxLoads
            /\ msgLoads' = msgLoads (+) SetToBag({[room |-> r, minLen |-> Len(serverLog[r])]})
            /\ isLoading' = TRUE
            /\ stayed' = IF isSending THEN FALSE ELSE stayed
       ELSE UNCHANGED <<msgLoads, isLoading, stayed>>

\* ------------------------------------------------------ effect [currentUser]
AuthChanged(u) ==
    /\ u # currentUser
    /\ currentUser' = u
    /\ IF u # NoUser
       THEN /\ roomLoads < MaxRoomLoads
            /\ Len(profileLoads) < MaxRoomLoads
            /\ roomLoads' = roomLoads + 1
            /\ profileLoads' = Append(profileLoads, u.displayName)
       ELSE UNCHANGED <<roomLoads, profileLoads>>
    /\ UNCHANGED <<createDialog, joinDialog>>
    /\ event' = Ev("authChanged", "", NoId, NoToast)
    /\ UNCHANGED <<rooms, activeRoomId, messages, newMessage, isLoading, isSending,
                   chatDisplayName, msgLoads, send, sendCount, serverLog>>
    /\ UNCHANGED stayed
    /\ RenderOnly

\* ------------------------------------------------------------ loadChatRooms
HasGlobal(list) == \E i \in 1..Len(list) : list[i].id = "global"

\* a synthesis that does not look for a global room in the response
RoomsAfterLoadAlways(list) == Append(list, SynthGlobalRoom)

\* setRooms(response.rooms || []) and the conditional append of the global room
RoomsAfterLoad(list) == IF HasGlobal(list) THEN list ELSE Append(list, SynthGlobalRoom)

LoadChatRoomsOk(list) ==
    /\ roomLoads > 0
    /\ roomLoads' = roomLoads - 1
    /\ rooms' = RoomsAfterLoad(list)
    \* the event notes whether a global room was listed before the call
    /\ UNCHANGED <<createDialog, joinDialog>>
    /\ event' = Ev("loadRoomsOk", IF HasGlobal(rooms) THEN "global" ELSE "", NoId, NoToast)
    /\ UNCHANGED <<currentUser, activeRoomId, messages, newMessage, isLoading, isSending,
                   chatDisplayName, msgLoads, profileLoads, send, sendCount, serverLog>>
    /\ UNCHANGED stayed
    /\ RenderOnly

\* a catch branch that also empties the room list
LoadChatRoomsFailClears ==
    /\ roomLoads > 0
    /\ roomLoads' = roomLoads - 1
    /\ rooms' = <<>>
    /\ UNCHANGED <<createDialog, joinDialog>>
    /\ event' = Ev("loadRoomsFail", "", NoId, "Failed to load chat rooms")
    /\ UNCHANGED <<currentUser, activeRoomId, messages, newMessage, isLoading,
                   isSending, chatDisplayName, msgLoads, profileLoads, send, sendCount,
                   serverLog>>
    /\ UNCHANGED stayed
    /\ RenderOnly

\* the catch branch of loadChatRooms
LoadChatRoomsFail ==
    /\ roomLoads > 0
    /\ roomLoads' = roomLoads - 1
    /\ UNCHANGED <<createDialog, joinDialog>>
    /\ event' = Ev("loadRoomsFail", "", NoId, "Failed to load chat rooms")
    /\ UNCHANGED <<currentUser, rooms, activeRoomId, messages, newMessage, isLoading,
                   isSending, chatDisplayName, msgLoads, profileLoads, send, sendCount,
                   serverLog>>
    /\ UNCHANGED stayed
    /\ RenderOnly

\* ---------------------------------------------------------- loadChatProfile
\* a fallback chain that prefers the generic display name
FirstNonEmptySwapped(a, b, c) == IF b # "" THEN b ELSE IF a # "" THEN a ELSE c

\* a || b || c on strings
FirstNonEmpty(a, b, c) == IF a # "" THEN a ELSE IF b # "" THEN b ELSE c

RemoveAt(s, i) == SubSeq(s, 1, i - 1) \o SubSeq(s, i + 1, Len(s))

LoadChatProfileOk(i, profileName) ==
    /\ i \in 1..Len(profileLoads)
    /\ chatDisplayName' = FirstNonEmpty(profileName, profileLoads[i], "You")
    /\ profileLoads' = RemoveAt(profileLoads, i)
    \* the event notes the two names the continuation chose from
    /\ UNCHANGED <<createDialog, joinDialog>>
    /\ event' = Ev("loadProfileOk", profileName, <<profileLoads[i], 0>>, NoToast)
    /\ UNCHANGED <<currentUser, rooms, activeRoomId, messages, newMessage, isLoading,
                   isSending, msgLoads, roomLoads, send, sendCount, serverLog>>
    /\ UNCHANGED stayed
    /\ RenderOnly

LoadChatProfileFail(i) ==
    /\ i \in 1..Len(profileLoads)
    /\ chatDisplayName' = FirstNonEmpty("", profileLoads[i], "You")
    /\ profileLoads' = RemoveAt(profileLoads, i)
    \* the event notes the name the catch branch fell back to
    /\ UNCHANGED <<createDialog, joinDialog>>
    /\ event' = Ev("loadProfileFail", "", <<profileLoads[i], 0>>, NoToast)
    /\ UNCHANGED <<currentUser, rooms, activeRoomId, messages, newMessage, isLoading,
                   isSending, msgLoads, roomLoads, send, sendCount, serverLog>>
    /\ UNCHANGED stayed
    /\ RenderOnly

\* --------------------------------------------------------- loadRoomMessages
\* the message service answers with the log of the room as it stood at some
\* moment between the request and the response
LoadRoomMessagesOk(l, k) ==
    /\ l \in BagToSet(msgLoads)
    /\ k \in l.minLen..Len(serverLog[l.room])
    /\ messages' = SubSeq(serverLog[l.room], 1, k)
    /\ isLoading' = FALSE
    /\ msgLoads' = msgLoads (-) SetToBag({l})
    /\ UNCHANGED <<createDialog, joinDialog>>
    /\ event' = Ev("loadMessagesOk", l.room, NoId, NoToast)
    /\ UNCHANGED <<currentUser, rooms, activeRoomId, newMessage, isSending,
                   chatDisplayName, roomLoads, profileLoads, send, sendCount, serverLog>>
    /\ UNCHANGED stayed
    /\ RenderOnly

LoadRoomMessagesFail(l) ==
    /\ l \in BagToSet(msgLoads)
    /\ isLoading' = FALSE
    /\ msgLoads' = msgLoads (-) SetToBag({l})
    /\ UNCHANGED <<createDialog, joinDialog>>
    /\ event' = Ev("loadMessagesFail", l.room, NoId, "Failed to load messages")
    /\ UNCHANGED <<currentUser, rooms, activeRoomId, messages, newMessage, isSending,
                   chatDisplayName, roomLoads, profileLoads, send, sendCount, serverLog>>
    /\ UNCHANGED stayed
    /\ RenderOnly

\* -------------------------------------------------------------- sendMessage
\* onChange of the compose input, which is disabled while isSending
TypeMessage(t) ==
    /\ ~isSending
    /\ t # newMessage
    /\ newMessage' = t
    /\ UNCHANGED <<createDialog, joinDialog>>
    /\ event' = Ev("type", "", NoId, NoToast)
    /\ UNCHANGED <<currentUser, rooms, activeRoomId, messages, isLoading, isSending,
                   chatDisplayName, msgLoads, roomLoads, profileLoads, send, sendCount,
                   serverLog>>
    /\ UNCHANGED stayed
    /\ RenderOnly

\* a selection that signs every message with the anonymous name
MessageUsernameAnon(active, sessionName, displayName) == sessionName

\* username of the optimistic message
MessageUsername(active, sessionName, displayName) ==
    IF active = "global" THEN sessionName ELSE displayName

\* the early return of sendMessage
SubmitRejected == Trim(newMessage) = <<>> \/ isSending \/ currentUser = NoUser

\* sendMessage up to its await
SendMessage ==
    IF SubmitRejected
    THEN /\ UNCHANGED <<createDialog, joinDialog>>
         /\ event' = Ev("submitIgnored", activeRoomId, NoId, NoToast)
         /\ UNCHANGED <<currentUser, rooms, activeRoomId, messages, newMessage, isLoading,
                        isSending, chatDisplayName, msgLoads, roomLoads, profileLoads,
                        send, sendCount, serverLog, stayed>>
         /\ RenderOnly
    ELSE /\ sendCount < MaxSends
         /\ \E fresh1 \in FreshUsernames, fresh2 \in FreshUsernames :
              LET messageText == Trim(newMessage)
                  tempId == <<TempPrefix, sendCount + 1>>
                  isGlobal == activeRoomId = "global"
                  \* first getSessionUsername call, for the optimistic message
                  name1 == SessionUsername(currentUsername, storedUsername, fresh1)
                  stored1 == IF isGlobal
                             THEN StoredAfter(currentUsername, storedUsername, fresh1)
                             ELSE storedUsername
                  \* second call, for the request: same closure, updated storage
                  name2 == SessionUsername(currentUsername, stored1, fresh2)
                  stored2 == IF isGlobal
                             THEN StoredAfter(currentUsername, stored1, fresh2)
                             ELSE stored1
                  cached2 == IF isGlobal THEN name2 ELSE currentUsername
                  optimisticMessage ==
                      [id |-> tempId, userId |-> currentUser.uid,
                       username |-> MessageUsername(activeRoomId, name1, chatDisplayName),
                       content |-> messageText, roomId |-> activeRoomId]
              IN  /\ newMessage' = <<>>
                  /\ isSending' = TRUE
                  /\ messages' = Append(messages, optimisticMessage)
                  /\ send' = [status |-> "sent", tempId |-> tempId,
                              roomId |-> activeRoomId, raw |-> newMessage,
                              content |-> messageText, username |-> IF isGlobal THEN name2 ELSE "",
                              message |-> NoMessage]
                  /\ sendCount' = sendCount + 1
                  /\ stayed' = TRUE
                  /\ UNCHANGED <<createDialog, joinDialog>>
                  /\ event' = Ev("submit", activeRoomId, tempId, NoToast)
                  /\ UNCHANGED <<currentUser, rooms, activeRoomId, isLoading,
                                 chatDisplayName, msgLoads, roomLoads, profileLoads,
                                 serverLog>>
                  /\ Render(cached2, stored2)

ServerDisplayName == "Ali"

\* the message service stores the message of the send in flight
ServerAccept ==
    /\ send.status = "sent"
    /\ LET m == [id |-> <<"msg", send.tempId[2]>>,
                 userId |-> IF send.roomId = "global" THEN "anon" ELSE Uid,
                 username |-> IF send.roomId = "global" THEN send.username
                              ELSE ServerDisplayName,
                 content |-> send.content, roomId |-> send.roomId]
       IN  /\ send' = [send EXCEPT !.status = "served", !.message = m]
           /\ serverLog' = [serverLog EXCEPT ![send.roomId] = Append(@, m)]
    /\ UNCHANGED <<currentUser, rooms, activeRoomId, messages, newMessage, isLoading,
                   isSending, currentUsername, chatDisplayName, storedUsername, msgLoads,
                   roomLoads, profileLoads, sendCount, stayed, own>>
    /\ UNCHANGED <<createDialog, joinDialog>>
    /\ event' = Ev("serverAccept", send.roomId, send.tempId, NoToast)

\* a reconciliation that appends the server message and keeps the pending one
ReconcileAppend(list, tempId, serverMessage) == Append(list, serverMessage)

\* prev.map(msg => msg.id === tempId ? response.message : msg)
Reconcile(list, tempId, serverMessage) ==
    [i \in 1..Len(list) |-> IF list[i].id = tempId THEN serverMessage ELSE list[i]]

\* a rollback that leaves the pending entry in the list
RollbackKeep(list, tempId) == list

\* prev.filter(msg => msg.id !== tempId)
Rollback(list, tempId) == SelectSeq(list, LAMBDA m : m.id # tempId)

\* sendMessage after its await resolved
SendMessageOk ==
    /\ send.status = "served"
    /\ messages' = Reconcile(messages, send.tempId, send.message)
    /\ isSending' = FALSE
    /\ send' = NoSend
    /\ UNCHANGED <<createDialog, joinDialog>>
    /\ event' = [Ev("sendOk", send.roomId, send.tempId, NoToast) EXCEPT !.stayed = stayed]
    /\ stayed' = TRUE
    /\ UNCHANGED <<currentUser, rooms, activeRoomId, newMessage, isLoading,
                   chatDisplayName, msgLoads, roomLoads, profileLoads, sendCount,
                   serverLog>>
    /\ RenderOnly

\* a catch branch without the finally block: isSending stays set
SendMessageFailNoFinally ==
    /\ send.status \in {"sent", "served"}
    /\ messages' = Rollback(messages, send.tempId)
    /\ newMessage' = send.content
    /\ isSending' = isSending
    /\ send' = NoSend
    /\ UNCHANGED <<createDialog, joinDialog>>
    /\ event' = [Ev("sendFail", send.roomId, send.tempId, "Failed to send message")
                     EXCEPT !.stayed = stayed]
    /\ stayed' = TRUE
    /\ UNCHANGED <<currentUser, rooms, activeRoomId, isLoading, chatDisplayName,
                   msgLoads, roomLoads, profileLoads, sendCount, serverLog>>
    /\ RenderOnly

\* sendMessage after its await rejected
SendMessageFail ==
    /\ send.status \in {"sent", "served"}
    /\ messages' = Rollback(messages, send.tempId)
    /\ newMessage' = send.content
    /\ isSending' = FALSE
    /\ send' = NoSend
    /\ UNCHANGED <<createDialog, joinDialog>>
    /\ event' = [Ev("sendFail", send.roomId, send.tempId, "Failed to send message")
                     EXCEPT !.stayed = stayed]
    /\ stayed' = TRUE
    /\ UNCHANGED <<currentUser, rooms, activeRoomId, isLoading, chatDisplayName,
                   msgLoads, roomLoads, profileLoads, sendCount, serverLog>>
    /\ RenderOnly

\* -------------------------------------------------------------- room events
HandleRoomSelect(r) ==
    /\ Activate(r)
    /\ UNCHANGED <<createDialog, joinDialog>>
    /\ event' = Ev("select", r, NoId, NoToast)
    /\ UNCHANGED <<currentUser, rooms, messages, newMessage, isSending, chatDisplayName,
                   roomLoads, profileLoads, send, sendCount, serverLog>>
    /\ RenderOnly

\* setRooms(prev => [...prev, room])
AddRoom(list, room) == Append(list, room)

\* the body shared by handleRoomCreated and handleRoomJoined: append the room
\* and make it the active one
RoomAdded(room) ==
    /\ Len(rooms) < MaxRooms
    /\ rooms' = AddRoom(rooms, room)
    /\ Activate(room.id)
    /\ UNCHANGED <<currentUser, messages, newMessage, isSending, chatDisplayName,
                   roomLoads, profileLoads, send, sendCount, serverLog>>
    /\ RenderOnly

\* a created notification, the dialog left aside
HandleRoomCreated(room) ==
    /\ RoomAdded(room)
    /\ UNCHANGED <<createDialog, joinDialog>>
    /\ event' = Ev("created", room.id, NoId, NoToast)

\* a joined notification, the dialog left aside
HandleRoomJoined(room) ==
    /\ RoomAdded(room)
    /\ UNCHANGED <<createDialog, joinDialog>>
    /\ event' = Ev("joined", room.id, NoId, NoToast)

\* an update that drops the old entries and appends the new room
ReplaceRoomAtEnd(list, updatedRoom) ==
    IF \E i \in 1..Len(list) : list[i].id = updatedRoom.id
    THEN Append(SelectSeq(list, LAMBDA room : room.id # updatedRoom.id), updatedRoom)
    ELSE list

\* prev.map(room => room.id === updatedRoom.id ? updatedRoom : room)
ReplaceRoom(list, updatedRoom) ==
    [i \in 1..Len(list) |-> IF list[i].id = updatedRoom.id THEN updatedRoom ELSE list[i]]

HandleRoomUpdated(updatedRoom) ==
    /\ rooms' = ReplaceRoom(rooms, updatedRoom)
    /\ UNCHANGED <<createDialog, joinDialog>>
    /\ event' = Ev("updated", updatedRoom.id, NoId, NoToast)
    /\ UNCHANGED <<currentUser, activeRoomId, messages, newMessage, isLoading, isSending,
                   chatDisplayName, msgLoads, roomLoads, profileLoads, send, sendCount,
                   serverLog>>
    /\ UNCHANGED stayed
    /\ RenderOnly

\* a removal that drops the first matching entry only
RemoveFirstRoom(list, roomId) ==
    IF \E i \in 1..Len(list) : list[i].id = roomId
    THEN LET first == CHOOSE i \in 1..Len(list) :
                         /\ list[i].id = roomId
                         /\ \A j \in 1..(i - 1) : list[j].id # roomId
         IN  SubSeq(list, 1, first - 1) \o SubSeq(list, first + 1, Len(list))
    ELSE list

\* prev.filter(room => room.id !== roomId)
RemoveRoom(list, roomId) == SelectSeq(list, LAMBDA room : room.id # roomId)

HandleRoomLeft(roomId) ==
    /\ rooms' = RemoveRoom(rooms, roomId)
    /\ Activate(IF activeRoomId = roomId THEN "global" ELSE activeRoomId)
    \* the event notes the room that was active when the handler ran
    /\ UNCHANGED <<createDialog, joinDialog>>
    /\ event' = Ev("left", roomId, <<activeRoomId, 0>>, NoToast)
    /\ UNCHANGED <<currentUser, messages, newMessage, isSending, chatDisplayName,
                   roomLoads, profileLoads, send, sendCount, serverLog>>
    /\ RenderOnly

HandleRoomDeleted(roomId) ==
    /\ rooms' = RemoveRoom(rooms, roomId)
    /\ Activate(IF activeRoomId = roomId THEN "global" ELSE activeRoomId)
    \* the event notes the room that was active when the handler ran
    /\ UNCHANGED <<createDialog, joinDialog>>
    /\ event' = Ev("deleted", roomId, <<activeRoomId, 0>>, NoToast)
    /\ UNCHANGED <<currentUser, messages, newMessage, isSending, chatDisplayName,
                   roomLoads, profileLoads, send, sendCount, serverLog>>
    /\ RenderOnly

\* ------------------------------------------------------------------ dialogs
\* what a dialog action leaves alone on the page
PageUnchanged ==
    /\ UNCHANGED <<currentUser, rooms, activeRoomId, messages, newMessage, isLoading,
                   isSending, chatDisplayName, msgLoads, roomLoads, profileLoads,
                   send, sendCount, serverLog, stayed>>
    /\ RenderOnly

\* handleCreateRoom / handleJoinRoom: setShow...Dialog(true)
OpenedDialog(d) == [d EXCEPT !.open = TRUE]

\* a dismissal that does not look at isLoading
DismissedDialogAlways(d) == [d EXCEPT !.open = FALSE, !.text = <<>>]

\* handleOpenChange(false) of a dialog: ignored while its call is in flight
DismissedDialog(d) == IF d.isLoading THEN d ELSE [d EXCEPT !.open = FALSE, !.text = <<>>]

\* a validation that accepts a blank name
FieldMissingExact(text) == text = <<>>

\* !name.trim() and !roomCode.trim()
FieldMissing(text) == Trim(text) = <<>>

HandleCreateRoom ==
    /\ ~createDialog.open
    /\ createDialog' = OpenedDialog(createDialog)
    /\ event' = Ev("openCreate", "", NoId, NoToast)
    /\ UNCHANGED joinDialog
    /\ PageUnchanged

\* onChange of the room name field
CreateTypeName(t) ==
    /\ createDialog.open
    /\ t # createDialog.text
    /\ createDialog' = [createDialog EXCEPT !.text = t]
    /\ event' = Ev("typeName", "", NoId, NoToast)
    /\ UNCHANGED joinDialog
    /\ PageUnchanged

CreateOpenChange ==
    /\ createDialog.open
    /\ createDialog' = DismissedDialog(createDialog)
    /\ event' = Ev("dismissCreate", "", NoId, NoToast)
    /\ UNCHANGED joinDialog
    /\ PageUnchanged

\* handleSubmit of CreateRoomDialog up to its await; the submit button is
\* disabled while isLoading
CreateSubmit ==
    /\ createDialog.open
    /\ ~createDialog.isLoading
    /\ IF FieldMissing(createDialog.text)
       THEN /\ createDialog' = createDialog
            /\ event' = Ev("createRejected", "", NoId, "Room name is required")
       ELSE /\ createDialog' = [createDialog EXCEPT !.isLoading = TRUE, !.inFlight = TRUE,
                                                     !.request = Trim(createDialog.text)]
            /\ event' = Ev("createSubmit", "", NoId, NoToast)
    /\ UNCHANGED joinDialog
    /\ PageUnchanged

\* handleSubmit of CreateRoomDialog after createChatRoom resolved:
\* onRoomCreated, onOpenChange(false), the reset and the success toast
CreateRoomOk(room) ==
    /\ createDialog.inFlight
    /\ RoomAdded(room)
    /\ createDialog' = ClosedDialog
    /\ event' = Ev("created", room.id, NoId, "Room created successfully")
    /\ UNCHANGED joinDialog

\* handleSubmit of CreateRoomDialog after createChatRoom rejected
CreateRoomFail ==
    /\ createDialog.inFlight
    /\ createDialog' = [createDialog EXCEPT !.isLoading = FALSE, !.inFlight = FALSE,
                                            !.request = <<>>]
    /\ event' = Ev("createFail", "", NoId, "Failed to create room")
    /\ UNCHANGED joinDialog
    /\ PageUnchanged

HandleJoinRoom ==
    /\ ~joinDialog.open
    /\ joinDialog' = OpenedDialog(joinDialog)
    /\ event' = Ev("openJoin", "", NoId, NoToast)
    /\ UNCHANGED createDialog
    /\ PageUnchanged

\* onChange of the room code field: setRoomCode(e.target.value.toUpperCase())
JoinTypeCode(t) ==
    /\ joinDialog.open
    /\ ToUpperCase(t) # joinDialog.text
    /\ joinDialog' = [joinDialog EXCEPT !.text = ToUpperCase(t)]
    /\ event' = Ev("typeCode", "", NoId, NoToast)
    /\ UNCHANGED createDialog
    /\ PageUnchanged

JoinOpenChange ==
    /\ joinDialog.open
    /\ joinDialog' = DismissedDialog(joinDialog)
    /\ event' = Ev("dismissJoin", "", NoId, NoToast)
    /\ UNCHANGED createDialog
    /\ PageUnchanged

\* handleSubmit of JoinRoomDialog up to its await.  The handler's own check
\* of the code is modelled; the submit button is disabled while isLoading
JoinSubmit ==
    /\ joinDialog.open
    /\ ~joinDialog.isLoading
    /\ IF FieldMissing(joinDialog.text)
       THEN /\ joinDialog' = joinDialog
            /\ event' = Ev("joinRejected", "", NoId, "Room code is required")
       ELSE /\ joinDialog' = [joinDialog EXCEPT !.isLoading = TRUE, !.inFlight = TRUE,
                                                 !.request = ToUpperCase(Trim(joinDialog.text))]
            /\ event' = Ev("joinSubmit", "", NoId, NoToast)
    /\ UNCHANGED createDialog
    /\ PageUnchanged

\* handleSubmit of JoinRoomDialog after joinChatRoom resolved
JoinRoomOk(room) ==
    /\ joinDialog.inFlight
    /\ RoomAdded(room)
    /\ joinDialog' = ClosedDialog
    /\ event' = Ev("joined", room.id, NoId, "Joined room successfully")
    /\ UNCHANGED createDialog

\* handleSubmit of JoinRoomDialog after joinChatRoom rejected
JoinRoomFail ==
    /\ joinDialog.inFlight
    /\ joinDialog' = [joinDialog EXCEPT !.isLoading = FALSE, !.inFlight = FALSE,
                                        !.request = <<>>]
    /\ event' = Ev("joinFail", "", NoId, "Failed to join room")
    /\ UNCHANGED createDialog
    /\ PageUnchanged

\* ------------------------------------------------------------ specification
Next ==
    \/ \E u \in Users \cup {NoUser} : AuthChanged(u)
    \/ \E list \in RoomLists : LoadChatRoomsOk(list)
    \/ LoadChatRoomsFail
    \/ \E i \in 1..MaxRoomLoads, n \in ProfileNames : LoadChatProfileOk(i, n)
    \/ \E i \in 1..MaxRoomLoads : LoadChatProfileFail(i)
    \/ \E l \in BagToSet(msgLoads), k \in 1..(MaxSends + 1) : LoadRoomMessagesOk(l, k)
    \/ \E l \in BagToSet(msgLoads) : LoadRoomMessagesFail(l)
    \/ \E t \in Texts : TypeMessage(t)
    \/ SendMessage
    \/ ServerAccept
    \/ SendMessageOk
    \/ SendMessageFail
    \/ \E r \in RoomIds : HandleRoomSelect(r)
    \/ \E room \in EventRooms : HandleRoomCreated(room)
    \/ \E room \in EventRooms : HandleRoomJoined(room)
    \/ \E room \in EventRooms : HandleRoomUpdated(room)
    \/ \E r \in RoomIds : HandleRoomLeft(r)
    \/ \E r \in RoomIds : HandleRoomDeleted(r)
    \/ HandleCreateRoom
    \/ \E t \in DialogTexts : CreateTypeName(t)
    \/ CreateOpenChange
    \/ CreateSubmit
    \/ \E room \in CreatedRooms : CreateRoomOk(room)
    \/ CreateRoomFail
    \/ HandleJoinRoom
    \/ \E t \in DialogTexts : JoinTypeCode(t)
    \/ JoinOpenChange
    \/ JoinSubmit
    \/ \E room \in CreatedRooms : JoinRoomOk(room)
    \/ JoinRoomFail

Spec == Init /\ [][Next]_vars

\* The synchronizer alone: sends, message loads and room switches, for one
\* user and a session whose anonymous name is already stored.  The room list,
\* the profile and the stored name are not read by these handlers.
InitSync == Init /\ currentUser \in {NoUser, TheUser} /\ storedUsername = "Student1"

NextSync ==
    \/ \E l \in BagToSet(msgLoads), k \in 1..(MaxSends + 1) : LoadRoomMessagesOk(l, k)
    \/ \E l \in BagToSet(msgLoads) : LoadRoomMessagesFail(l)
    \/ \E t \in Texts : TypeMessage(t)
    \/ SendMessage
    \/ ServerAccept
    \/ SendMessageOk
    \/ SendMessageFail
    \/ \E r \in RoomIds : HandleRoomSelect(r)

SpecSync == InitSync /\ [][NextSync]_vars

\* The room membership projector alone.  Its handlers read neither the message
\* list nor the profile; message fetches are answered by failures here, which
\* keeps the message list out of the state count.
NextRooms ==
    \/ \E u \in {NoUser, TheUser} : AuthChanged(u)
    \/ \E list \in RoomLists : LoadChatRoomsOk(list)
    \/ LoadChatRoomsFail
    \/ \E l \in BagToSet(msgLoads) : LoadRoomMessagesFail(l)
    \/ \E r \in RoomIds : HandleRoomSelect(r)
    \/ \E room \in EventRooms : HandleRoomCreated(room)
    \/ \E room \in EventRooms : HandleRoomJoined(room)
    \/ \E room \in EventRooms : HandleRoomUpdated(room)
    \/ \E r \in RoomIds : HandleRoomLeft(r)
    \/ \E r \in RoomIds : HandleRoomDeleted(r)

InitRooms == InitSync

SpecRooms == InitRooms /\ [][NextRooms]_vars

\* The identity resolver with the synchronizer: the session may start with no
\* stored anonymous name, and the profile fetch of the mount effect completes
\* at any moment.  A history fetch is answered with the whole log.
InitIdentity == Init /\ currentUser = TheUser

NextIdentity ==
    \/ \E i \in 1..MaxRoomLoads, n \in ProfileNames : LoadChatProfileOk(i, n)
    \/ \E i \in 1..MaxRoomLoads : LoadChatProfileFail(i)
    \/ \E l \in BagToSet(msgLoads) : LoadRoomMessagesOk(l, Len(serverLog[l.room]))
    \/ TypeMessage(<<"h", "i">>)
    \/ SendMessage
    \/ ServerAccept
    \/ SendMessageOk
    \/ SendMessageFail
    \/ \E r \in RoomIds : HandleRoomSelect(r)

SpecIdentity == InitIdentity /\ [][NextIdentity]_vars

\* The profile resolver alone: sign-in changes, and the completions of the
\* room-list and profile fetches that each sign-in starts.
InitProfile == Init /\ storedUsername = "Student1"

NextProfile ==
    \/ \E u \in Users \cup {NoUser} : AuthChanged(u)
    \/ \E i \in 1..MaxRoomLoads, n \in ProfileNames : LoadChatProfileOk(i, n)
    \/ \E i \in 1..MaxRoomLoads : LoadChatProfileFail(i)
    \/ \E list \in RoomLists : LoadChatRoomsOk(list)
    \/ LoadChatRoomsFail
    \/ \E l \in BagToSet(msgLoads) : LoadRoomMessagesFail(l)

SpecProfile == InitProfile /\ [][NextProfile]_vars

\* The three forms: the create and join dialogs with their service calls, and
\* the compose form.  Sends and history fetches are answered by failures here.
InitDialogs == InitSync /\ currentUser = TheUser

NextDialogs ==
    \/ HandleCreateRoom
    \/ \E t \in DialogTexts : CreateTypeName(t)
    \/ CreateOpenChange
    \/ CreateSubmit
    \/ \E room \in CreatedRooms : CreateRoomOk(room)
    \/ CreateRoomFail
    \/ HandleJoinRoom
    \/ \E t \in DialogTexts : JoinTypeCode(t)
    \/ JoinOpenChange
    \/ JoinSubmit
    \/ \E room \in CreatedRooms : JoinRoomOk(room)
    \/ JoinRoomFail
    \/ \E t \in Texts : TypeMessage(t)
    \/ SendMessage
    \/ SendMessageFail
    \/ \E l \in BagToSet(msgLoads) : LoadRoomMessagesFail(l)

SpecDialogs == InitDialogs /\ [][NextDialogs]_vars

\* The synchronizer with services that answer: a send call in flight is
\* eventually settled (resolved or rejected), and every history fetch in flight
\* is eventually answered with the whole log.
InitLive == InitSync /\ currentUser = TheUser

\* every getRoomMessages call that can be in flight
AllLoads == [room : RoomIds, minLen : 1..(MaxSends + 1)]

LoadAnswered(l) == LoadRoomMessagesOk(l, Len(serverLog[l.room]))

SendSettled == SendMessageOk \/ SendMessageFail

NextLive ==
    \/ \E l \in BagToSet(msgLoads) : LoadAnswered(l)
    \/ TypeMessage(<<"h", "i">>)
    \/ SendMessage
    \/ ServerAccept
    \/ SendMessageOk
    \/ SendMessageFail
    \/ \E r \in RoomIds : HandleRoomSelect(r)

SpecLive ==
    /\ InitLive
    /\ [][NextLive]_vars
    /\ WF_vars(SendSettled)
    /\ \A l \in AllLoads : WF_vars(LoadAnswered(l))

\* ------------------------------------------------------------------ claims
PendingIndexes(list) == {i \in 1..Len(list) : IsPendingId(list[i].id)}

\* the indexes of the entries that stand for send number n: the pending
\* entry temp_n and the message the service created for it
EntriesOfSend(list, n) ==
    {i \in 1..Len(list) : list[i].id = <<TempPrefix, n>> \/ list[i].id = <<"msg", n>>}

GlobalIndexes(list) == {i \in 1..Len(list) : list[i].id = "global"}

\* C1: whenever a message-load response has just been applied to `messages`,
\* the room it was requested for is the active room; a late response for a
\* room that is no longer active never replaces the list.
C1_RoomSwitchDiscard ==
    event.op = "loadMessagesOk" => event.room = activeRoomId

\* C2: a submit issued while a send is in flight changes nothing (no pending
\* entry appended, no send call issued, compose field untouched), and the list
\* never holds more than one entry whose id starts with temp_.
C2_SerializedSends ==
    /\ [](Cardinality(PendingIndexes(messages)) <= 1)
    /\ [][ (isSending /\ event'.op \in {"submit", "submitIgnored"})
             => /\ event'.op = "submitIgnored"
                /\ UNCHANGED <<messages, newMessage, send, sendCount, isSending>> ]_vars

\* a submit was issued and ignored while the pending entry of the send in
\* flight is in the list
C2_Witness ==
    /\ event.op = "submitIgnored"
    /\ isSending
    /\ send.status # "idle"
    /\ Cardinality(PendingIndexes(messages)) = 1

\* C3: once a send has succeeded and its response has been processed, and the
\* user stayed in the room, the list holds exactly one entry for that send,
\* the server message with the submitted content, and no temp_ entry.
C3_Reconciliation ==
    (event.op = "sendOk" /\ event.stayed)
        => /\ Cardinality(EntriesOfSend(messages, event.id[2])) = 1
           /\ \A i \in EntriesOfSend(messages, event.id[2]) :
                 /\ messages[i].id = <<"msg", event.id[2]>>
                 /\ messages[i].content = <<"h", "i">>
           /\ PendingIndexes(messages) = {}

\* C4: once a send has failed and the failure has been processed, no entry
\* carries the local id of that send, the compose field holds the trimmed
\* submitted text, an error toast was raised and isSending is false.
C4_Rollback ==
    [][ event'.op = "sendFail"
          => /\ \A i \in 1..Len(messages') : messages'[i].id # send.tempId
             /\ newMessage' = Trim(send.raw)
             /\ Trim(send.raw) # <<>>
             /\ event'.toast # NoToast
             /\ ~isSending' ]_vars

\* a send of a text with surrounding blanks failed while its pending entry was
\* still displayed: the entry is gone and the compose field holds "hi"
C4_Witness ==
    /\ event.op = "sendFail"
    /\ newMessage = <<"h", "i">>
    /\ messages # <<>>
    /\ ~isSending
    /\ event.stayed

\* C5: the list never holds two entries for one send (pending and confirmed,
\* or the confirmed message twice), and a pending entry leaves the list only
\* in the step that reconciles or rolls back its send.
C5_OneEntryPerSend ==
    /\ [](\A n \in 1..MaxSends : Cardinality(EntriesOfSend(messages, n)) <= 1)
    /\ [][ \A n \in 1..MaxSends :
             ( (\E i \in 1..Len(messages) : messages[i].id = <<TempPrefix, n>>)
               /\ ~(\E i \in 1..Len(messages') : messages'[i].id = <<TempPrefix, n>>) )
             => (event'.op \in {"sendOk", "sendFail"} /\ event'.id = <<TempPrefix, n>>) ]_vars

\* C6: while its send is in flight a pending entry keeps its index and the
\* entries before it; only reconciliation or rollback touches it.
C6_PendingStable ==
    [][ \A i \in PendingIndexes(messages) :
          (isSending /\ event'.op \notin {"sendOk", "sendFail"})
             => /\ Len(messages') >= i
                /\ SubSeq(messages', 1, i) = SubSeq(messages, 1, i) ]_vars

\* C7: exactly one room of `rooms` has id "global" and type global, in every
\* reachable state.
C7_ExactlyOneGlobal ==
    Cardinality({i \in 1..Len(rooms) :
                    rooms[i].id = "global" /\ rooms[i].type = "global"}) = 1

\* C8: after every completed room load the list is either the fetched list,
\* which names the global room once, or a fetched list without a global room
\* followed by the synthesized one; in both cases one room has id "global",
\* however often the load is repeated.
C8_GlobalSynthesis ==
    event.op = "loadRoomsOk"
        => /\ Cardinality(GlobalIndexes(rooms)) = 1
           /\ \/ \E l \in RoomLists : GlobalIndexes(l) # {} /\ rooms = l
              \/ \E l \in RoomLists :
                    /\ GlobalIndexes(l) = {}
                    /\ rooms = l \o <<[id |-> "global", name |-> "Global Chat",
                                       code |-> "GLOBAL", type |-> "global",
                                       members |-> {}, createdBy |-> "system",
                                       maxMembers |-> 1000]>>

\* a room load completed on a response without a global room while the list
\* already had one: the synthesized room is there once, after a fetched room
C8_Witness ==
    /\ event.op = "loadRoomsOk"
    /\ event.room = "global"
    /\ Len(rooms) = 2
    /\ rooms[2] = SynthGlobalRoom
    /\ rooms[1].id = "r1"

\* C9: a failed room-list fetch raises an error toast and leaves rooms and
\* activeRoomId as they were.
C9_LoadRoomsFailure ==
    [][ event'.op = "loadRoomsFail"
          => /\ rooms' = rooms
             /\ activeRoomId' = activeRoomId
             /\ event'.toast # NoToast ]_vars

\* the fetch failed when the list was populated and a private room was active
C9_Witness ==
    /\ event.op = "loadRoomsFail"
    /\ Len(rooms) >= 2
    /\ activeRoomId = "r1"

\* C10: no two entries of `rooms` share an id, and a created or joined event
\* for an id already in the list leaves the list as it is.
C10_NoDuplicateRooms ==
    /\ [](\A i, j \in 1..Len(rooms) : rooms[i].id = rooms[j].id => i = j)
    /\ [][ (event'.op \in {"created", "joined"}
            /\ \E i \in 1..Len(rooms) : rooms[i].id = event'.room)
             => rooms' = rooms ]_vars

\* C11: a left or deleted event for room r removes every entry with id r and
\* keeps the other rooms in their order; activeRoomId becomes "global" if r
\* was active and is unchanged otherwise, so it never names a removed room
\* other than "global".
C11_RemovalFallback ==
    [][ event'.op \in {"left", "deleted"}
          => LET r == event'.room
                 kept == {i \in 1..Len(rooms) : rooms[i].id # r}
             IN  /\ Len(rooms') = Cardinality(kept)
                 /\ \A i \in kept :
                       rooms'[Cardinality({j \in kept : j <= i})] = rooms[i]
                 /\ activeRoomId' = IF activeRoomId = r THEN "global" ELSE activeRoomId
                 /\ (r # "global" => activeRoomId' # r) ]_vars

\* the active room r1 was deleted: the rooms listed around it are still there
\* in their order and the fallback made "global" the active room
C11_Witness ==
    /\ event.op = "deleted"
    /\ event.room = "r1"
    /\ event.id[1] = "r1"
    /\ activeRoomId = "global"
    /\ Len(rooms) = 2
    /\ rooms[1].id = "global"
    /\ rooms[2].id = "global"

\* C12: an updated event replaces the room with the matching id in place:
\* the length, the position of the updated room and every other room are
\* unchanged, as are activeRoomId and the message list; an event for an id
\* that is not listed changes nothing.
C12_UpdateInPlace ==
    [][ event'.op = "updated"
          => /\ Len(rooms') = Len(rooms)
             /\ \E updatedRoom \in EventRooms :
                   /\ updatedRoom.id = event'.room
                   /\ \A i \in 1..Len(rooms) :
                         rooms'[i] = IF rooms[i].id = event'.room
                                     THEN updatedRoom ELSE rooms[i]
             /\ activeRoomId' = activeRoomId
             /\ messages' = messages
             /\ ((\A i \in 1..Len(rooms) : rooms[i].id # event'.room) => rooms' = rooms) ]_vars

\* room r1 was renamed where it stood, in front of the global room
C12_Witness ==
    /\ event.op = "updated"
    /\ event.room = "r1"
    /\ Len(rooms) = 2
    /\ rooms[1] = PrivateRoom("r1", "renamed")
    /\ rooms[2].id = "global"

\* t is c without its leading and trailing blanks
IsTrimmed(t, c) ==
    \E i \in 1..(Len(c) + 1), j \in 0..Len(c) :
        /\ t = SubSeq(c, i, j)
        /\ \A k \in 1..Len(c) : (k < i \/ k > j) => c[k] = " "
        /\ t # <<>> => (t[1] # " " /\ t[Len(t)] # " ")

\* C19: right after an accepted submit of c the compose field is empty,
\* isSending is true, the message list is the previous list with one pending
\* entry appended whose content is c trimmed and whose roomId is the active
\* room, and the send call in flight targets that room with that content.
C19_AcceptedSubmit ==
    [][ event'.op = "submit"
          => /\ newMessage' = <<>>
             /\ isSending'
             /\ Len(messages') = Len(messages) + 1
             /\ SubSeq(messages', 1, Len(messages)) = messages
             /\ LET m == messages'[Len(messages')]
                IN  /\ IsPendingId(m.id)
                    /\ m.id = event'.id
                    /\ m.content # <<>>
                    /\ IsTrimmed(m.content, newMessage)
                    /\ m.roomId = activeRoomId
             /\ activeRoomId' = activeRoomId
             /\ send'.status = "sent"
             /\ send'.roomId = activeRoomId
             /\ IsTrimmed(send'.content, newMessage) ]_vars

\* " hi " was submitted in a room that shows an earlier message: the pending
\* entry "hi" is last and the send is in flight
C19_Witness ==
    /\ event.op = "submit"
    /\ send.status = "sent"
    /\ send.raw = <<" ", "h", "i", " ">>
    /\ Len(messages) = 2
    /\ messages[1] = HistoryMessage(activeRoomId)
    /\ messages[2].id = send.tempId
    /\ messages[2].content = <<"h", "i">>
    /\ newMessage = <<>>
    /\ isSending

\* C20: a successful send response replaces the entry whose id is the pending
\* id by the server message at the same index; the length, every other entry
\* and the order are unchanged, and a list without that id is unchanged.
C20_ReconcileFrame ==
    [][ event'.op = "sendOk"
          => /\ Len(messages') = Len(messages)
             /\ \A i \in 1..Len(messages) :
                   /\ messages[i].id # send.tempId => messages'[i] = messages[i]
                   /\ messages[i].id = send.tempId => messages'[i] = send.message
             /\ ((\A i \in 1..Len(messages) : messages[i].id # send.tempId)
                    => messages' = messages) ]_vars

\* the second send was reconciled: its server message stands where the
\* pending entry stood, after the history and the first send
C20_Witness ==
    /\ event.op = "sendOk"
    /\ event.id = <<TempPrefix, 2>>
    /\ Len(messages) = 3
    /\ messages[1] = HistoryMessage(activeRoomId)
    /\ messages[2].id = <<"msg", 1>>
    /\ messages[3].id = <<"msg", 2>>
    /\ ~isSending

\* the messages of the global room that this session sent
AnonymousSent == SelectSeq(serverLog["global"], LAMBDA m : m.userId = "anon")

\* every value getSessionUsername has returned and that is still on record:
\* the cached name, the names on the pending entries of the global room, the
\* name passed to the send in flight and the names the service stored
ResolvedNames ==
    (IF currentUsername # "" THEN {currentUsername} ELSE {})
      \cup {messages[i].username :
               i \in {j \in PendingIndexes(messages) : messages[j].roomId = "global"}}
      \cup (IF send.status # "idle" /\ send.roomId = "global" THEN {send.username} ELSE {})
      \cup {AnonymousSent[i].username : i \in 1..Len(AnonymousSent)}

\* C13: the anonymous username is written to the session store at most once
\* (a stored name is never replaced), and every call of getSessionUsername
\* returns the stored name: across room switches, renders and calls made
\* before the cached name was updated, all resolved names are one value.
C13_StableSessionIdentity ==
    /\ [](ResolvedNames \subseteq {storedUsername} /\ "" \notin ResolvedNames)
    /\ [][storedUsername # "" => storedUsername' = storedUsername]_vars

\* the session started without a stored name, generated "Student2", and two
\* sends to the global room carried it
C13_Witness ==
    /\ storedUsername = "Student2"
    /\ currentUsername = "Student2"
    /\ Len(AnonymousSent) = 2
    /\ send.status = "served"
    /\ send.roomId = "global"
    /\ activeRoomId = "r1"

\* C14: in the global room a message row is attributed to the caller iff its
\* username is the session username, whatever its userId; in any other room
\* iff its userId is the caller's id, whatever its username.
C14_OwnAttribution ==
    (currentUser # NoUser /\ ~isLoading)
      => /\ Len(own) = Len(messages)
         /\ \A i \in 1..Len(messages) :
               own[i] <=> IF activeRoomId = "global"
                          THEN messages[i].username = storedUsername
                          ELSE messages[i].userId = currentUser.uid

\* the global room shows another student's message and one this session
\* sent, which the service stored under the anonymous user id
C14_Witness ==
    /\ activeRoomId = "global"
    /\ ~isLoading
    /\ currentUser = TheUser
    /\ Len(messages) = 2
    /\ messages[1] = HistoryMessage("global")
    /\ messages[2].userId = "anon"
    /\ messages[2].username = storedUsername
    /\ own = <<FALSE, TRUE>>

\* C15: the pending message of a submit carries the anonymous session
\* username iff the active room is "global" and the chat display name
\* otherwise; the send call passes an anonymous username only for the global
\* room, the one on the pending message.
C15_IdentitySelection ==
    event.op = "submit"
      => LET m == messages[Len(messages)]
         IN  /\ m.id = event.id
             /\ send.roomId = event.room
             /\ IF event.room = "global"
                THEN /\ m.username = storedUsername
                     /\ storedUsername # ""
                     /\ send.username = m.username
                ELSE /\ m.username = chatDisplayName
                     /\ send.username = ""

\* a submit in the private room after the profile gave the name "Ali", in a
\* session that has an anonymous name
C15_Witness ==
    /\ event.op = "submit"
    /\ event.room = "r1"
    /\ chatDisplayName = "Ali"
    /\ storedUsername = "Student2"
    /\ messages[Len(messages)].username = "Ali"
    /\ send.username = ""

\* C18: a submit takes effect only when the identity of the active room is
\* resolved, so every pending message carries a non-empty username.
C18_ResolvedIdentity ==
    \A i \in PendingIndexes(messages) : messages[i].username # ""

\* the first non-empty name of a list that ends with a non-empty one
FirstNamed(names) ==
    names[CHOOSE k \in 1..Len(names) :
              /\ names[k] # ""
              /\ \A j \in 1..(k - 1) : names[j] = ""]

\* C17: loadChatProfile always ends with a non-empty chat display name and
\* raises no toast: on success the first non-empty of the profile's name, the
\* caller's generic display name and "You"; on failure the first non-empty
\* of the generic display name and "You".
C17_DisplayNameFallback ==
    [][ /\ event'.op = "loadProfileOk"
          => chatDisplayName' = FirstNamed(<<event'.room, event'.id[1], "You">>)
        /\ event'.op = "loadProfileFail"
          => chatDisplayName' = FirstNamed(<<event'.id[1], "You">>)
        /\ event'.op \in {"loadProfileOk", "loadProfileFail"}
          => /\ chatDisplayName' # ""
             /\ event'.toast = NoToast ]_vars

\* the profile has a chat name and the caller a generic name: the profile's
\* name won
C17_Witness ==
    /\ event.op = "loadProfileOk"
    /\ event.room = "Ali"
    /\ event.id[1] = "Alice"
    /\ chatDisplayName = "Ali"
    /\ profileLoads = <<>>

\* a field that is empty once trimmed
AllBlank(text) == \A i \in 1..Len(text) : text[i] = " "

\* C16: a validation error causes no call and no state change.  A submit of
\* a blank message leaves messages, the compose field and isSending as they
\* were and issues no send; a create submit with a blank name and a join
\* submit with a blank code issue no service call, add no room and leave
\* rooms and activeRoomId as they were.
C16_ValidationErrors ==
    [][ /\ (event'.op \in {"submit", "submitIgnored"} /\ AllBlank(newMessage))
          => /\ event'.op = "submitIgnored"
             /\ UNCHANGED <<messages, newMessage, isSending, send, sendCount, serverLog>>
        /\ (event'.op \in {"createSubmit", "createRejected"} /\ AllBlank(createDialog.text))
          => /\ event'.op = "createRejected"
             /\ ~createDialog'.inFlight
             /\ UNCHANGED <<createDialog, rooms, activeRoomId, msgLoads>>
        /\ (event'.op \in {"joinSubmit", "joinRejected"} /\ AllBlank(joinDialog.text))
          => /\ event'.op = "joinRejected"
             /\ ~joinDialog'.inFlight
             /\ UNCHANGED <<joinDialog, rooms, activeRoomId, msgLoads>> ]_vars

\* the create form was submitted with the name " " after an earlier room
\* had been created: the toast is up, the list still holds that one room
C16_Witness ==
    /\ event.op = "createRejected"
    /\ event.toast = "Room name is required"
    /\ createDialog.open
    /\ createDialog.text = <<" ">>
    /\ ~createDialog.inFlight
    /\ Len(rooms) = 1
    /\ activeRoomId = "r1"

\* the message loads in flight that were requested for room r
LoadsFor(r) == {l \in BagToSet(msgLoads) : l.room = r}

\* C21: whenever no message load for the active room is in flight, every
\* entry of the message list has the active room's id: after room switches,
\* after failed loads, and when a send completes after a room switch.
C21_ScopedMessages ==
    LoadsFor(activeRoomId) = {}
      => \A i \in 1..Len(messages) : messages[i].roomId = activeRoomId

\* C22: once a submit has set isSending, the settled send call clears it
\* again, whatever the outcome; and isSending is true exactly while a send
\* call is outstanding.
C22_SendingCleared ==
    /\ [](isSending <=> send.status # "idle")
    /\ (isSending ~> ~isSending)

\* a second submit was accepted after the first send had been settled
C22_Witness ==
    /\ isSending
    /\ sendCount = 2
    /\ send.tempId = <<TempPrefix, 2>>

\* the list shows messages of the active room only, and at least one
ActiveHistory ==
    /\ messages # <<>>
    /\ \A i \in 1..Len(messages) : messages[i].roomId = activeRoomId

\* C23: every change of the active room starts a history fetch for the new
\* active room; a fetch that succeeds while its room is active replaces the
\* list by the fetched list; so, fetches being answered, once the user stays
\* in a room the list eventually shows the history of that room.
C23_FetchOnRoomChange ==
    /\ [][activeRoomId' # activeRoomId
            => \E l \in BagToSet(msgLoads') :
                  /\ l.room = activeRoomId'
                  /\ CopiesIn(l, msgLoads') = CopiesIn(l, msgLoads) + 1]_vars
    /\ [][(event'.op = "loadMessagesOk" /\ event'.room = activeRoomId)
            => \E k \in 1..Len(serverLog[activeRoomId]) :
                  messages' = SubSeq(serverLog[activeRoomId], 1, k)]_vars
    /\ \A r \in RoomIds : <>[](activeRoomId = r) => <>[]ActiveHistory

\* C24: isLoading is true whenever a message load for the active room is in
\* flight, also when loads overlap after quick room switches, and false once
\* no load is in flight.
C24_LoadingTracksLoads ==
    /\ LoadsFor(activeRoomId) # {} => isLoading
    /\ BagToSet(msgLoads) = {} => ~isLoading

\* getCurrentRoom finds a room
RoomListed(list, r) == \E i \in 1..Len(list) : list[i].id = r

\* C25: once the active room is listed it stays listed, for every
\* interleaving of room-list responses with created, joined, left and deleted
\* events; a room-list response that arrives after a created or joined event
\* does not drop the room that event added and activated.
C25_ActiveRoomListed ==
    [][ /\ (event'.op \in {"loadRoomsOk", "created", "joined"}
             /\ RoomListed(rooms, activeRoomId))
          => RoomListed(rooms', activeRoomId')
        /\ (event'.op \in {"left", "deleted"} /\ event'.room # "global"
             /\ RoomListed(rooms, activeRoomId) /\ RoomListed(rooms, "global"))
          => RoomListed(rooms', activeRoomId') ]_vars

\* what C26 says of one dialog: d and dNew are its state before and after a
\* step whose handler was `op`
RequestOutcome(op, d, dNew, okOp, failOp, dismissOp) ==
    /\ op = okOp /\ event'.toast # NoToast
          => /\ d.inFlight /\ ~dNew.inFlight
             /\ \E room \in CreatedRooms :
                   /\ rooms' = Append(rooms, room)
                   /\ activeRoomId' = room.id
    /\ op = failOp
          => /\ d.inFlight /\ ~dNew.inFlight
             /\ rooms' = rooms
             /\ activeRoomId' = activeRoomId
             /\ dNew.open
             /\ dNew.text = d.text
             /\ ~dNew.isLoading
    /\ (op = dismissOp /\ d.inFlight) => (dNew = d /\ d.open)
    /\ (op \notin {okOp, failOp}) => (rooms' = rooms /\ (d.inFlight => dNew.inFlight))

\* C26: a create or join request adds exactly one room when its call
\* succeeds and none when it fails; on failure rooms and activeRoomId are
\* unchanged, the dialog stays open with its input retained and its
\* isLoading cleared; while the call is in flight a dismissal is ignored.
C26_RequestOutcome ==
    [][ /\ (event'.op \in {"created", "createFail", "dismissCreate", "createSubmit",
                           "createRejected", "typeName", "openCreate"})
          => RequestOutcome(event'.op, createDialog, createDialog',
                            "created", "createFail", "dismissCreate")
        /\ (event'.op \in {"joined", "joinFail", "dismissJoin", "joinSubmit",
                           "joinRejected", "typeCode", "openJoin"})
          => RequestOutcome(event'.op, joinDialog, joinDialog',
                            "joined", "joinFail", "dismissJoin") ]_vars

\* the join call for code "A" failed after an earlier create had succeeded:
\* the dialog is still open with the code in it and can be submitted again
C26_Witness ==
    /\ event.op = "joinFail"
    /\ joinDialog.open
    /\ joinDialog.text = <<"A">>
    /\ ~joinDialog.isLoading
    /\ ~joinDialog.inFlight
    /\ Len(rooms) = 1
    /\ activeRoomId = "r1"

====
